---------------------------- MODULE Spec2Model ----------------------------
(***************************************************************************)
(* A model of kugelblitz's translator (kugelblitz/translator/__init__.py): *)
(* the dispatcher translate() and every translate_* rule, as recursive     *)
(* operators over syntax trees.  A tree node is a record whose kind field  *)
(* is the name of its ast class; the other fields keep the ast names.      *)
(* A Python str that the code compares or sorts (an identifier) is a tuple *)
(* of one-character strings; emitted text is a TLA+ string.                *)
(*                                                                         *)
(* A call's outcome is a record                                            *)
(*     [err, text, visited]                                                *)
(* err is "none" when the call returns text, else the class of the         *)
(* exception that left the call: "KeyError" (the dispatch table has no     *)
(* entry), "CompileError" (raise CompileError), "AssertionError" (a failed *)
(* assert).  visited lists, in dispatch order, the nodes translate() was   *)
(* called on before the call returned or raised.                           *)
(***************************************************************************)
EXTENDS Integers, Sequences, FiniteSets, TLC

VARIABLES
    root,      \* the syntax tree handed to translate()
    result,    \* the outcome of translate(root), once it has run
    pc         \* "ready" before the call, "done" after it

vars == <<root, result, pc>>

-----------------------------------------------------------------------------
(* Python str values *)

\* ord() of the characters identifiers are written with here.
ord(c) ==
    CASE c = "I" -> 73 [] c = "_" -> 95
      [] c = "a" -> 97 [] c = "b" -> 98 [] c = "c" -> 99 [] c = "d" -> 100
      [] c = "e" -> 101 [] c = "f" -> 102 [] c = "g" -> 103 [] c = "i" -> 105
      [] c = "l" -> 108 [] c = "m" -> 109 [] c = "n" -> 110 [] c = "s" -> 115
      [] c = "t" -> 116 [] c = "x" -> 120 [] c = "y" -> 121 [] c = "z" -> 122

\* a < b on two str values: lexicographic on the code points, a proper
\* prefix first.
RECURSIVE str_lt(_, _)
str_lt(a, b) ==
    IF b = <<>> THEN FALSE
    ELSE IF a = <<>> THEN TRUE
    ELSE IF Head(a) # Head(b) THEN ord(Head(a)) < ord(Head(b))
    ELSE str_lt(Tail(a), Tail(b))

\* The text of a str value, as it is substituted into a format string.
RECURSIVE text_of(_)
text_of(s) == IF s = <<>> THEN "" ELSE Head(s) \o text_of(Tail(s))

\* sep.join(parts)
RECURSIVE join(_, _)
join(sep, parts) ==
    IF parts = <<>> THEN ""
    ELSE IF Len(parts) = 1 THEN parts[1]
    ELSE parts[1] \o sep \o join(sep, Tail(parts))

\* sorted() with the order turned round: the names in descending order.
RECURSIVE sorted_descending(_)
sorted_descending(names) ==
    IF names = {} THEN <<>>
    ELSE LET most == CHOOSE n \in names : \A o \in names \ {n} : str_lt(o, n)
         IN  <<most>> \o sorted_descending(names \ {most})

\* sorted(names): the names of a dict's keys in ascending order.
RECURSIVE sorted(_)
sorted(names) ==
    IF names = {} THEN <<>>
    ELSE LET least == CHOOSE n \in names : \A m \in names \ {n} : str_lt(n, m)
         IN  <<least>> \o sorted(names \ {least})

-----------------------------------------------------------------------------
(* Outcomes of a call *)

Returns(text, visited) == [err |-> "none", text |-> text, visited |-> visited]

Raises(err, visited) == [err |-> err, text |-> "", visited |-> visited]

\* The calls rs[1], rs[2], ... made one after the other: the first one that
\* raises ends the sequence, and the calls after it are never made.
RECURSIVE in_order(_)
in_order(rs) ==
    IF rs = <<>> THEN Returns("", <<>>)
    ELSE IF rs[1].err # "none" THEN Raises(rs[1].err, rs[1].visited)
    ELSE LET rest == in_order(Tail(rs))
         IN  [rest EXCEPT !.visited = rs[1].visited \o @]

\* The outcome of a rule that makes the calls rs in that order and then
\* returns text.
after(rs, text) ==
    LET calls == in_order(rs)
    IN  IF calls.err # "none" THEN calls ELSE Returns(text, calls.visited)

-----------------------------------------------------------------------------
(* The dispatch table *)

\* The node classes the dict literal of translate() has a key for.
Registered ==
    { "FunctionDef", "Module", "Return", "Name", "ClassDef", "Assign",
      "Attribute", "Num", "Tuple", "BoolOp", "BinOp", "Compare", "UnaryOp",
      "Lambda", "Call", "If", "IfExp", "Expr",
      "And", "Or", "Add", "Sub", "Mult", "Div", "Mod", "LShift", "RShift",
      "BitOr", "BitXor", "BitAnd", "FloorDiv", "Invert", "Not", "UAdd",
      "USub", "Eq", "Lt", "LtE", "Gt", "GtE" }

\* The lambdas of the table that return an operator's symbol.
translate_operator(node) ==
    CASE node.kind = "And" -> "&&"
      [] node.kind = "Or" -> "||"
      [] node.kind = "Add" -> "+"
      [] node.kind = "Sub" -> "-"
      [] node.kind = "Mult" -> "*"
      [] node.kind = "Div" -> "/"
      [] node.kind = "Mod" -> "%"
      [] node.kind = "LShift" -> "<<"
      [] node.kind = "RShift" -> ">>"
      [] node.kind = "BitOr" -> "|"
      [] node.kind = "BitXor" -> "^"
      [] node.kind = "BitAnd" -> "&"
      [] node.kind = "FloorDiv" -> "/"
      [] node.kind = "Invert" -> "~"
      [] node.kind = "Not" -> "!"
      [] node.kind = "UAdd" -> "+"
      [] node.kind = "USub" -> "-"
      [] node.kind = "Eq" -> "=="
      [] node.kind = "Lt" -> "<"
      [] node.kind = "LtE" -> "<="
      [] node.kind = "Gt" -> ">"
      [] node.kind = "GtE" -> ">="

OperatorKinds ==
    { "And", "Or", "Add", "Sub", "Mult", "Div", "Mod", "LShift", "RShift",
      "BitOr", "BitXor", "BitAnd", "FloorDiv", "Invert", "Not", "UAdd",
      "USub", "Eq", "Lt", "LtE", "Gt", "GtE" }

RECURSIVE translate(_)
RECURSIVE translate_body(_, _)
RECURSIVE translate_function(_, _)


-----------------------------------------------------------------------------
(* The rules.  Each returns the outcome of the rule's body; translate()     *)
(* records the node it was called on.                                      *)

translate_return(node) ==
    LET value == translate(node.value)
    IN  after(<<value>>, "return " \o value.text)

translate_lambda(node) ==
    LET args_def == join(", ", [i \in 1..Len(node.args.args) |->
                                    text_of(node.args.args[i].id)])
        body_def == translate_body(<<node.body>>, "\n")
    IN  after(<<body_def>>,
              "function(" \o args_def \o ") {\nreturn " \o body_def.text \o "\n}")

translate_if(node) ==
    LET test_def == translate(node.test)
        body_def == translate_body(node.body, "\n")
        orelse_def == translate_body(node.orelse, "\n")
        first == "if (" \o test_def.text \o ") { " \o body_def.text \o " }"
    IN  IF node.orelse # <<>>
        THEN after(<<test_def, body_def, orelse_def>>,
                   join("\n", <<first, "else { " \o orelse_def.text \o " }">>))
        ELSE after(<<test_def, body_def>>, join("\n", <<first>>))

translate_if_exp(node) ==
    LET test == translate(node.test)
        body == translate(node.body)
        orelse == translate(node.orelse)
    IN  after(<<test, body, orelse>>,
              test.text \o " ? " \o body.text \o " : " \o orelse.text)

translate_name(node) ==
    IF node.id = <<"s", "e", "l", "f">>
    THEN Returns("this", <<>>)
    ELSE Returns(text_of(node.id), <<>>)

translate_tuple(node) == Returns("?tuple?", <<>>)

translate_bool_op(node) ==
    LET left == translate(node.values[1])
        op == translate(node.op)
        right == translate(node.values[2])
    IN  after(<<left, op, right>>,
              "(" \o left.text \o " " \o op.text \o " " \o right.text \o ")")

\* translate_bin_op with the operands of the power call the wrong way round.
translate_bin_op_swapped(node) ==
    LET left == translate(node.left)
        op == translate(node.op)
        right == translate(node.right)
    IN  IF node.op.kind = "Pow"
        THEN after(<<left, right>>,
                   "Math.pow(" \o right.text \o ", " \o left.text \o ")")
        ELSE after(<<left, op, right>>,
                   "(" \o left.text \o " " \o op.text \o " " \o right.text \o ")")

translate_bin_op(node) ==
    LET left == translate(node.left)
        op == translate(node.op)
        right == translate(node.right)
    IN  IF node.op.kind = "Pow"
        THEN after(<<left, right>>,
                   "Math.pow(" \o left.text \o ", " \o right.text \o ")")
        ELSE after(<<left, op, right>>,
                   "(" \o left.text \o " " \o op.text \o " " \o right.text \o ")")

translate_unary_op(node) ==
    LET op == translate(node.op)
        operand == translate(node.operand)
    IN  after(<<op, operand>>, join("", <<op.text, operand.text>>))

translate_attribute(node) ==
    LET left == translate(node.value)
    IN  after(<<left>>, left.text \o "." \o text_of(node.attr))

translate_num(node) == Returns(ToString(node.n), <<>>)

translate_call(node) ==
    LET args == [i \in 1..Len(node.args) |-> translate(node.args[i])]
        args_def == join(", ", [i \in 1..Len(args) |-> args[i].text])
        func == translate(node.func)
    IN  after(args \o <<func>>, func.text \o "(" \o args_def \o ")")

\* translate_compare without its two asserts.
translate_compare_unchecked(node) ==
    LET left == translate(node.left)
        op == translate(node.ops[1])
        comparator == translate(node.comparators[1])
    IN  after(<<left, op, comparator>>,
              "(" \o left.text \o " " \o op.text \o " " \o comparator.text \o ")")

translate_compare(node) ==
    LET left == translate(node.left)
        op == translate(node.ops[1])
        comparator == translate(node.comparators[1])
    IN  IF Len(node.ops) # 1 \/ Len(node.comparators) # 1
        THEN Raises("AssertionError", <<>>)
        ELSE after(<<left, op, comparator>>,
                   "(" \o left.text \o " " \o op.text \o " "
                       \o comparator.text \o ")")

\* "%(target)s = %(value)s": the value is translated first, the target second.
assign_statement(target, value) ==
    LET v == translate(value)
        t == translate(target)
    IN  after(<<v, t>>, t.text \o " = " \o v.text)

\* assign_target pairing the targets with the values taken from the far end.
assign_target_crossed(target, value) ==
    IF target.kind = "Tuple"
    THEN IF value.kind = "Tuple"
         THEN IF Len(target.elts) # Len(value.elts)
              THEN <<Raises("CompileError", <<>>)>>
              ELSE [i \in 1..Len(target.elts) |->
                        assign_statement(target.elts[i],
                                         value.elts[Len(value.elts) + 1 - i])]
         ELSE <<Raises("CompileError", <<>>)>>
    ELSE <<assign_statement(target, value)>>

\* assign_target without the comparison of the two lengths: zip() stops at
\* the shorter of the two tuples.
assign_target_unchecked(target, value) ==
    IF target.kind = "Tuple"
    THEN IF value.kind = "Tuple"
         THEN LET shorter == IF Len(target.elts) < Len(value.elts)
                             THEN Len(target.elts) ELSE Len(value.elts)
              IN  [i \in 1..shorter |->
                      assign_statement(target.elts[i], value.elts[i])]
         ELSE <<Raises("CompileError", <<>>)>>
    ELSE <<assign_statement(target, value)>>

\* The statements one target of an assignment appends, or the error it raises.
\* Each is an outcome whose text is one statement.
assign_target(target, value) ==
    IF target.kind = "Tuple"
    THEN IF value.kind = "Tuple"
         THEN IF Len(target.elts) # Len(value.elts)
              THEN <<Raises("CompileError", <<>>)>>
              ELSE [i \in 1..Len(target.elts) |->
                        assign_statement(target.elts[i], value.elts[i])]
         ELSE <<Raises("CompileError", <<>>)>>
    ELSE <<assign_statement(target, value)>>

RECURSIVE assign_statements(_, _)
assign_statements(targets, value) ==
    IF targets = <<>> THEN <<>>
    ELSE assign_target(Head(targets), value)
             \o assign_statements(Tail(targets), value)

translate_assign(node) ==
    LET statements == assign_statements(node.targets, node.value)
    IN  after(statements,
              join(";\n", [i \in 1..Len(statements) |-> statements[i].text]))

translate_body(body, line_separator) ==
    LET nodes == [i \in 1..Len(body) |-> translate(body[i])]
        s == [i \in 1..Len(body) |->
                 IF body[i].kind = "If"
                 THEN nodes[i].text
                 ELSE nodes[i].text \o ";"]
    IN  after(nodes, join("\n", s))

translate_module(node) == translate_body(node.body, "\n\n")

translate_function(node, instance_method) ==
    LET args == node.args.args
        body_def == translate_body(node.body, "\n")
    IN  IF instance_method
        THEN after(<<body_def>>,
                   "function ("
                   \o join(", ", [i \in 1..Len(args) - 1 |-> text_of(args[i + 1].id)])
                   \o ") { " \o body_def.text \o " }")
        ELSE after(<<body_def>>,
                   "var " \o text_of(node.name) \o " = function ("
                   \o join(", ", [i \in 1..Len(args) |-> text_of(args[i].id)])
                   \o ") { " \o body_def.text \o " }")

\* The first loop of translate_class: the dicts functions and assigns after
\* the items of body, or the assert that failed.
RECURSIVE class_items(_)
class_items(body) ==
    IF body = <<>>
    THEN [err |-> "none", functions |-> <<>>, assigns |-> <<>>]
    ELSE LET before == class_items(SubSeq(body, 1, Len(body) - 1))
             item == body[Len(body)]
         IN  IF before.err # "none" THEN before
             ELSE IF item.kind = "FunctionDef"
             THEN [before EXCEPT !.functions = (item.name :> item) @@ @]
             ELSE IF item.kind = "Assign"
             THEN IF Len(item.targets) # 1 \/ item.targets[1].kind # "Name"
                  THEN [before EXCEPT !.err = "AssertionError"]
                  ELSE [before EXCEPT
                           !.assigns = (item.targets[1].id :> item.value) @@ @]
             ELSE before

init_name == <<"_", "_", "i", "n", "i", "t", "_", "_">>

translate_class(node) ==
    LET items == class_items(node.body)
        functions == items.functions
        assigns == items.assigns
        has_init == init_name \in DOMAIN functions
        init_def == IF has_init
                    THEN translate_function(functions[init_name], TRUE)
                    ELSE Returns("function () {}", <<>>)
        anames == sorted(DOMAIN assigns)
        fnames == sorted(DOMAIN functions \ {init_name})
        adefs == [i \in 1..Len(anames) |-> translate(assigns[anames[i]])]
        fdefs == [i \in 1..Len(fnames) |->
                     translate_function(functions[fnames[i]], TRUE)]
        body == [i \in 1..Len(anames) |->
                    "'" \o text_of(anames[i]) \o "': " \o adefs[i].text]
                \o [i \in 1..Len(fnames) |->
                    "'" \o text_of(fnames[i]) \o "': " \o fdefs[i].text]
    IN  IF items.err # "none" THEN Raises(items.err, <<>>)
        ELSE after(<<init_def>> \o adefs \o fdefs,
                   "var " \o text_of(node.name) \o " = " \o init_def.text
                   \o ";\n" \o text_of(node.name) \o ".prototype = { "
                   \o join(",\n", body) \o " }")

\* tree.__class__'s entry of the table, applied to tree.
rule(tree) ==
    CASE tree.kind = "FunctionDef" -> translate_function(tree, FALSE)
      [] tree.kind = "Module" -> translate_module(tree)
      [] tree.kind = "Return" -> translate_return(tree)
      [] tree.kind = "Name" -> translate_name(tree)
      [] tree.kind = "ClassDef" -> translate_class(tree)
      [] tree.kind = "Assign" -> translate_assign(tree)
      [] tree.kind = "Attribute" -> translate_attribute(tree)
      [] tree.kind = "Num" -> translate_num(tree)
      [] tree.kind = "Tuple" -> translate_tuple(tree)
      [] tree.kind = "BoolOp" -> translate_bool_op(tree)
      [] tree.kind = "BinOp" -> translate_bin_op(tree)
      [] tree.kind = "Compare" -> translate_compare(tree)
      [] tree.kind = "UnaryOp" -> translate_unary_op(tree)
      [] tree.kind = "Lambda" -> translate_lambda(tree)
      [] tree.kind = "Call" -> translate_call(tree)
      [] tree.kind = "If" -> translate_if(tree)
      [] tree.kind = "IfExp" -> translate_if_exp(tree)
      [] tree.kind = "Expr" -> translate(tree.value)
      [] tree.kind \in OperatorKinds -> Returns(translate_operator(tree), <<>>)

\* translate with a default for the kinds the table has no key for.
translate_lenient(tree) ==
    IF tree.kind \notin Registered
    THEN Returns("", <<tree>>)
    ELSE LET r == rule(tree)
         IN  [r EXCEPT !.visited = <<tree>> \o @]

translate(tree) ==
    IF tree.kind \notin Registered
    THEN Raises("KeyError", <<tree>>)
    ELSE LET r == rule(tree)
         IN  [r EXCEPT !.visited = <<tree>> \o @]

-----------------------------------------------------------------------------
(* Syntax trees: the node classes of the ast module, Python 2 layout (the  *)
(* formal parameters of a function are Name nodes).                        *)

Name(id) == [kind |-> "Name", id |-> id]
Num(n) == [kind |-> "Num", n |-> n]
Str(s) == [kind |-> "Str", s |-> s]
Operator(kind) == [kind |-> kind]
Tuple(elts) == [kind |-> "Tuple", elts |-> elts]
BoolOp(op, values) == [kind |-> "BoolOp", op |-> op, values |-> values]
BinOp(left, op, right) ==
    [kind |-> "BinOp", left |-> left, op |-> op, right |-> right]
UnaryOp(op, operand) == [kind |-> "UnaryOp", op |-> op, operand |-> operand]
Compare(left, ops, comparators) ==
    [kind |-> "Compare", left |-> left, ops |-> ops,
     comparators |-> comparators]
Attribute(value, attr) == [kind |-> "Attribute", value |-> value, attr |-> attr]
Call(func, args) == [kind |-> "Call", func |-> func, args |-> args]
IfExp(test, body, orelse) ==
    [kind |-> "IfExp", test |-> test, body |-> body, orelse |-> orelse]
arguments(args) == [kind |-> "arguments", args |-> args]
Lambda(args, body) == [kind |-> "Lambda", args |-> arguments(args), body |-> body]
Expr(value) == [kind |-> "Expr", value |-> value]
Return(value) == [kind |-> "Return", value |-> value]
Assign(targets, value) ==
    [kind |-> "Assign", targets |-> targets, value |-> value]
If(test, body, orelse) ==
    [kind |-> "If", test |-> test, body |-> body, orelse |-> orelse]
FunctionDef(name, args, body) ==
    [kind |-> "FunctionDef", name |-> name, args |-> arguments(args),
     body |-> body]
ClassDef(name, body) == [kind |-> "ClassDef", name |-> name, body |-> body]
Module(body) == [kind |-> "Module", body |-> body]

\* The node kinds the parser can put where an operator is expected and the
\* table has no key for.
UnregisteredOperatorKinds == { "Pow", "NotEq" }

-----------------------------------------------------------------------------
(* Bounds of the trees translate() is called on *)

MaxNum == 1        \* numeric literals are 0..MaxNum
MaxOps == 2        \* operators, and comparators, of a comparison
MaxDepth == 1      \* expression contexts wrapped around an expression
MaxArity == 3      \* elements of a tuple
MaxTargets == 2    \* chained targets of an assignment
MaxMembers == 3    \* statements of a class body
MaxStmts == 3      \* statements of a module body
MaxArgs == 3       \* formal parameters of a function

SeqsFromTo(S, lo, hi) == UNION { [1..k -> S] : k \in lo..hi }

id_a == <<"a">>
id_b == <<"b">>
id_f == <<"f">>
id_m == <<"m">>
id_x == <<"x">>
id_z == <<"z">>
id_self == <<"s", "e", "l", "f">>
id_me == <<"m", "e">>
id_A == <<"A">>

\* The i-th of a row of distinct identifiers.
Letters == <<"a", "b", "c", "d", "e", "f", "g">>
Letter(i) == <<Letters[i]>>

Chained == Compare(Num(1), <<Operator("Lt"), Operator("Lt")>>,
                   <<Name(id_x), Num(2)>>)

(* Expressions *)

Operands ==
    { Name(id_a), Name(id_self), Str(id_a) } \cup { Num(n) : n \in 0..MaxNum }

BinaryOperators ==
    { Operator(k) : k \in { "Add", "Sub", "Mult", "Div", "Mod", "LShift",
                            "RShift", "BitOr", "BitXor", "BitAnd", "FloorDiv",
                            "Pow" } }

BinOps == { BinOp(l, op, r) : l \in Operands, op \in BinaryOperators,
                              r \in Operands }

Compares ==
    UNION { { Compare(Num(1), ops, comparators) :
                ops \in [1..k -> { Operator("Lt"), Operator("GtE"),
                                   Operator("NotEq") }],
                comparators \in [1..k -> { Name(id_x), Num(0) }] } :
            k \in 1..MaxOps }

UnaryOps ==
    { UnaryOp(Operator(k), e) : k \in { "Invert", "Not", "UAdd", "USub" },
                                e \in Operands }

BoolOps ==
    { BoolOp(Operator(k), <<l, r>>) : k \in { "And", "Or" },
                                     l \in Operands, r \in Operands }

\* The expressions that are put in a context.
Seeds ==
    { Chained,
      Compare(Name(id_a), <<Operator("Eq")>>, <<Num(1)>>),
      BinOp(Name(id_a), Operator("Pow"), Num(1)),
      Str(id_a), Name(id_self), Name(id_me), Num(1),
      Tuple(<<Name(id_a), Name(id_b)>>) }

\* e as a direct child of an expression node.
InExpression(e) ==
    { Attribute(e, id_x),
      Call(e, <<>>),
      Call(Name(id_f), <<e>>),
      Call(Name(id_f), <<Num(1), e>>),
      Call(Str(id_a), <<e>>),
      IfExp(e, Name(id_a), Num(1)),
      IfExp(Name(id_a), e, Num(1)),
      IfExp(Name(id_a), Num(1), e),
      Lambda(<<Name(id_x)>>, e),
      UnaryOp(Operator("Not"), e),
      BinOp(e, Operator("Add"), Num(1)),
      BinOp(Str(id_a), Operator("Add"), e),
      BinOp(Num(1), Operator("Pow"), e),
      BoolOp(Operator("And"), <<Name(id_a), e>>),
      BoolOp(Operator("Or"), <<Name(id_a), Num(1), e>>),
      Compare(e, <<Operator("Lt")>>, <<Num(1)>>),
      Compare(Num(1), <<Operator("Lt")>>, <<e>>),
      Tuple(<<e>>) }

RECURSIVE Wrapped(_, _)
Wrapped(S, d) ==
    IF d = 0 THEN S
    ELSE S \cup UNION { InExpression(e) : e \in Wrapped(S, d - 1) }

Expressions ==
    BinOps \cup Compares \cup UnaryOps \cup BoolOps \cup Wrapped(Seeds, MaxDepth)

(* Operators handed to translate() on their own *)

Operators == { Operator(k) : k \in OperatorKinds \cup UnregisteredOperatorKinds }

(* Statements around an expression *)

Pass == [kind |-> "Pass"]

\* e inside a statement, a function or a class.
InStatement(e) ==
    { Expr(e),
      Return(e),
      Assign(<<Name(id_a)>>, e),
      Assign(<<Attribute(e, id_x)>>, Num(1)),
      If(e, <<Expr(Name(id_a))>>, <<>>),
      If(Name(id_a), <<Return(e)>>, <<Expr(Name(id_b))>>),
      If(Name(id_a), <<Pass>>, <<Expr(e)>>),
      If(Name(id_a), <<Expr(Name(id_b))>>,
         <<If(e, <<Return(Num(1))>>, <<>>)>>),
      FunctionDef(id_f, <<Name(id_x)>>, <<Expr(e)>>),
      FunctionDef(id_f, <<>>, <<Assign(<<Name(id_a)>>, Num(1)), Return(e)>>),
      ClassDef(id_A, <<Expr(e)>>),
      ClassDef(id_A, <<Assign(<<Name(id_a)>>, e)>>),
      ClassDef(id_A, <<FunctionDef(id_m, <<Name(id_self)>>, <<Return(e)>>)>>),
      ClassDef(id_A, <<ClassDef(id_b, <<Assign(<<Name(id_a)>>, e)>>)>>),
      Module(<<Expr(e)>>) }

Statements == UNION { InStatement(e) : e \in Wrapped(Seeds, MaxDepth - 1) }

(* Assignments *)

\* A tuple of k distinct names, of k distinct attributes, of k distinct
\* numbers.
NameTuple(k) == Tuple([i \in 1..k |-> Name(Letter(i))])
AttributeTuple(k) == Tuple([i \in 1..k |-> Attribute(Name(id_self), Letter(i))])
NumTuple(k) == Tuple([i \in 1..k |-> Num(i)])

Targets ==
    { Name(id_z), Attribute(Name(id_self), id_x), Attribute(Chained, id_x) }
    \cup { NameTuple(k) : k \in 1..MaxArity }
    \cup { AttributeTuple(2) }

Values ==
    { Num(0), Name(id_self), Chained,
      Compare(Name(id_a), <<Operator("NotEq")>>, <<Num(1)>>),
      Tuple(<<Num(1), Chained>>) }
    \cup { NumTuple(k) : k \in 1..MaxArity }
    \cup { NameTuple(k) : k \in 1..MaxArity }

Assigns ==
    { Assign(targets, value) : targets \in SeqsFromTo(Targets, 1, MaxTargets),
                               value \in Values }

(* Functions and classes *)

\* The formal parameters first, c, d, ...: n of them.
Parameters(first, n) ==
    [i \in 1..n |-> IF i = 1 THEN Name(first) ELSE Name(Letter(i + 1))]

ParameterLists ==
    { <<>> } \cup { Parameters(first, n) : first \in { id_self, id_me },
                                            n \in 1..MaxArgs }

\* Bodies that refer to a parameter, to an attribute of one, or to none.
BodiesOver(args) ==
    { <<Return(Num(1))>> }
    \cup { <<Return(Name(args[i].id))>> : i \in 1..Len(args) }
    \cup { <<Assign(<<Attribute(Name(args[i].id), id_x)>>,
                    Name(args[Len(args)].id))>> : i \in 1..Len(args) }

Functions ==
    UNION { { FunctionDef(id_f, args, body) : body \in BodiesOver(args) } :
            args \in ParameterLists }

Methods ==
    UNION { { FunctionDef(name, args, body) : name \in { id_m, init_name },
                                              body \in BodiesOver(args) } :
            args \in ParameterLists }

MethodClasses == { ClassDef(id_A, <<method>>) : method \in Methods }

\* The statements class bodies are made of.
Members ==
    { FunctionDef(id_b, <<Name(id_self)>>, <<Return(Num(1))>>),
      FunctionDef(id_m, <<Name(id_self)>>, <<Return(Name(id_self))>>),
      FunctionDef(init_name, <<Name(id_self), Name(id_x)>>,
                  <<Assign(<<Attribute(Name(id_self), id_x)>>, Name(id_x))>>),
      Assign(<<Name(id_a)>>, Num(1)),
      Assign(<<Name(id_z)>>, Num(2)),
      Assign(<<Name(id_a)>>, Num(0)),
      Assign(<<Name(id_b)>>, Str(id_a)),
      Expr(Chained) }

\* Assignments in a class body whose target is not one simple name.
BadMembers ==
    { Assign(<<Name(id_a), Name(id_z)>>, Num(1)),
      Assign(<<NameTuple(2)>>, NumTuple(2)),
      Assign(<<Attribute(Name(id_self), id_x)>>, Num(1)),
      Assign(<<Name(id_a), NameTuple(2)>>, Num(1)),
      Assign(<<Attribute(Name(id_a), id_x)>>, Chained),
      Assign(<<NameTuple(2)>>, Num(0)) }

Classes ==
    { ClassDef(id_A, body) : body \in SeqsFromTo(Members, 0, MaxMembers) }
    \cup { ClassDef(id_A, before \o <<bad>> \o after_) :
             before \in SeqsFromTo(Members, 0, 1), bad \in BadMembers,
             after_ \in SeqsFromTo(Members, 0, 1) }
    \cup MethodClasses

(* Modules *)

TopLevel ==
    { Expr(Call(Name(id_f), <<>>)),
      Assign(<<Name(id_a)>>, Num(1)),
      If(Name(id_a), <<Expr(Name(id_b))>>, <<>>),
      FunctionDef(id_f, <<>>, <<Return(Num(1))>>),
      Expr(Str(id_a)) }

Modules == { Module(body) : body \in SeqsFromTo(TopLevel, 0, MaxStmts) }

-----------------------------------------------------------------------------
(* The calls *)

NotRun == [err |-> "pending", text |-> "", visited |-> <<>>]

StatementKinds ==
    { "FunctionDef", "ClassDef", "Return", "Assign", "If", "Expr", "Pass" }

Init ==
    /\ root \in Modules \cup Statements \cup Assigns \cup Functions \cup Classes
                \cup Expressions \cup Operators
    /\ result = NotRun
    /\ pc = "ready"

\* translate(root), wherever the caller got root from.
Run ==
    /\ pc = "ready"
    /\ result' = translate(root)
    /\ pc' = "done"
    /\ UNCHANGED root

\* A whole program.
TranslateModule == root.kind = "Module" /\ Run

\* One statement or declaration.
TranslateStatement == root.kind \in StatementKinds /\ Run

\* One operator node.
TranslateOperator ==
    root.kind \in OperatorKinds \cup UnregisteredOperatorKinds /\ Run

\* One expression.
TranslateExpression ==
    /\ root.kind \notin { "Module" } \cup StatementKinds \cup OperatorKinds
                        \cup UnregisteredOperatorKinds
    /\ Run

Next ==
    \/ TranslateModule
    \/ TranslateStatement
    \/ TranslateOperator
    \/ TranslateExpression

Spec == Init /\ [][Next]_vars

Done == pc = "done"

-----------------------------------------------------------------------------
(* What the properties below speak of *)

\* The child nodes of a node, whether or not a rule translates them.
Children(t) ==
    CASE t.kind \in { "Module", "ClassDef" } -> t.body
      [] t.kind = "FunctionDef" -> t.args.args \o t.body
      [] t.kind = "Lambda" -> t.args.args \o <<t.body>>
      [] t.kind \in { "Return", "Expr", "Attribute" } -> <<t.value>>
      [] t.kind = "Assign" -> t.targets \o <<t.value>>
      [] t.kind = "Tuple" -> t.elts
      [] t.kind = "BoolOp" -> <<t.op>> \o t.values
      [] t.kind = "BinOp" -> <<t.left, t.op, t.right>>
      [] t.kind = "UnaryOp" -> <<t.op, t.operand>>
      [] t.kind = "Compare" -> <<t.left>> \o t.ops \o t.comparators
      [] t.kind = "Call" -> <<t.func>> \o t.args
      [] t.kind = "If" -> <<t.test>> \o t.body \o t.orelse
      [] t.kind = "IfExp" -> <<t.test, t.body, t.orelse>>
      [] OTHER -> <<>>

\* Every node of a tree, at any depth.
RECURSIVE Nodes(_)
Nodes(t) ==
    {t} \cup UNION { Nodes(Children(t)[i]) : i \in DOMAIN Children(t) }

IsChained(n) ==
    n.kind = "Compare" /\ (Len(n.ops) > 1 \/ Len(n.comparators) > 1)

\* The node whose dispatch was the last one before the call ended.
LastVisited == result.visited[Len(result.visited)]

ReturnsText == result.err = "none"

-----------------------------------------------------------------------------
(* translate_bin_op *)

BinaryCase ==
    /\ Done
    /\ root.kind = "BinOp"
    /\ translate(root.left).err = "none"
    /\ translate(root.right).err = "none"

PowerCase == BinaryCase /\ root.op.kind = "Pow"

OtherBinaryCase == BinaryCase /\ root.op.kind \in OperatorKinds

\* "(A OP B)" with OP the symbol the table gives the operator.
InfixText ==
    "(" \o translate(root.left).text \o " " \o translate_operator(root.op)
        \o " " \o translate(root.right).text \o ")"

\* C2 as stated: a power node with operands translating to A and B gives
\* exactly "pow(A, B)", and every other binary operator gives "(A OP B)".
C2_PowIsBarePow ==
    /\ PowerCase =>
         /\ ReturnsText
         /\ result.text = "pow(" \o translate(root.left).text \o ", "
                              \o translate(root.right).text \o ")"
    /\ OtherBinaryCase => ReturnsText /\ result.text = InfixText

\* C2 amended: a power node with operands translating to A and B gives
\* exactly "Math.pow(A, B)", left before right, and every other binary
\* operator gives "(A OP B)" with OP from the operator table.
C2_PowIsMathPow ==
    /\ PowerCase =>
         /\ ReturnsText
         /\ result.text = "Math.pow(" \o translate(root.left).text \o ", "
                              \o translate(root.right).text \o ")"
    /\ OtherBinaryCase => ReturnsText /\ result.text = InfixText

\* A power node whose operands translate to different texts has been
\* translated.
C2_Witness ==
    /\ PowerCase
    /\ ReturnsText
    /\ translate(root.left).text # translate(root.right).text

-----------------------------------------------------------------------------
(* translate_body and translate_module *)

\* The text each statement of a body contributes: its translation, with the
\* terminator translate_body gives it.
StatementTexts(body) ==
    [i \in 1..Len(body) |-> translate_body(<<body[i]>>, "\n").text]

\* C3 as stated: a nested body is joined by one newline, and the statements
\* of a module with two or more of them are separated by a blank line.
C3_ModuleBlankLine ==
    /\ (Done /\ root.kind = "If" /\ ReturnsText /\ root.orelse = <<>>) =>
         result.text = "if (" \o translate(root.test).text \o ") { "
                       \o join("\n", StatementTexts(root.body)) \o " }"
    /\ (Done /\ root.kind = "Module" /\ ReturnsText /\ Len(root.body) >= 2) =>
         result.text = join("\n\n", StatementTexts(root.body))

-----------------------------------------------------------------------------
(* translate_assign *)

\* One tuple target, a tuple value of the same arity, every element of both
\* translating to a text.
TupleToTuple ==
    /\ Done
    /\ root.kind = "Assign"
    /\ Len(root.targets) = 1
    /\ root.targets[1].kind = "Tuple"
    /\ root.value.kind = "Tuple"
    /\ Len(root.targets[1].elts) = Len(root.value.elts)
    /\ \A i \in DOMAIN root.value.elts :
         /\ translate(root.targets[1].elts[i]).err = "none"
         /\ translate(root.value.elts[i]).err = "none"

\* C4: a tuple target of arity k assigned a tuple literal of arity k gives
\* exactly the k statements "t_i = v_i", i = 1..k in that order, joined by
\* ";\n".
C4_TupleAssignPairs ==
    /\ TupleToTuple =>
          /\ ReturnsText
          /\ result.text =
               join(";\n", [i \in 1..Len(root.value.elts) |->
                               translate(root.targets[1].elts[i]).text \o " = "
                               \o translate(root.value.elts[i]).text])
    /\ (Done /\ root = Assign(<<NameTuple(2)>>, NumTuple(2))) =>
          result.text = "a = 1;\nb = 2"

\* A tuple of the largest arity has been assigned to a tuple pattern.
C4_Witness ==
    TupleToTuple /\ ReturnsText /\ Len(root.value.elts) = MaxArity

\* The i-th target is a tuple pattern that the value does not fit.
Misfit(i) ==
    /\ root.targets[i].kind = "Tuple"
    /\ \/ root.value.kind # "Tuple"
       \/ Len(root.targets[i].elts) # Len(root.value.elts)

MisfitCase ==
    Done /\ root.kind = "Assign" /\ \E i \in DOMAIN root.targets : Misfit(i)

\* C5 as stated: a tuple target, at any position among the targets, whose
\* value is not a tuple literal of its arity makes the assignment raise the
\* semantic error and return no text.
C5_MisfitIsSemanticError ==
    MisfitCase => result.err = "CompileError" /\ result.text = ""

\* The dispatch the call ended on raised by itself: the node has no rule, or
\* is a chained comparison.
RaisedInDispatch ==
    \/ result.err = "KeyError" /\ LastVisited.kind \notin Registered
    \/ result.err = "AssertionError" /\ IsChained(LastVisited)

\* C5 amended: such an assignment never returns text, not even the statements
\* of the targets before the tuple target; the error is the semantic error,
\* unless translating the value, an earlier target or an element has already
\* raised its own error, which is then the one that leaves the call.
C5_MisfitNoText ==
    MisfitCase =>
        /\ ~ReturnsText
        /\ result.text = ""
        /\ result.err = "CompileError" \/ RaisedInDispatch
        /\ (\A i \in DOMAIN result.visited :
              result.visited[i].kind \in Registered
              /\ ~IsChained(result.visited[i])) => result.err = "CompileError"

\* The second of two targets is the tuple pattern that does not fit, and the
\* first target's statement had been made when the semantic error was raised.
C5_Witness ==
    /\ MisfitCase
    /\ Len(root.targets) = 2
    /\ ~Misfit(1)
    /\ Misfit(2)
    /\ result.err = "CompileError"
    /\ Len(result.visited) >= 3

-----------------------------------------------------------------------------
(* translate_compare *)

\* C7 as stated: a chained comparison at any depth of the tree makes the
\* translation fail with the assertion's error, and no text is returned.
C7_ChainedAnywhereFails ==
    (Done /\ \E n \in Nodes(root) : IsChained(n)) =>
        result.err = "AssertionError" /\ result.text = ""

\* C7 amended: a chained comparison that translate() is called on, at any
\* depth of the recursion, ends the whole call there with the assertion's
\* error and no text.  (A chained comparison in a part of the tree that no
\* rule translates, or behind a node that raised before it, is never
\* reached.)
C7_ChainedDispatchedFails ==
    Done =>
        \A i \in DOMAIN result.visited :
            IsChained(result.visited[i]) =>
                /\ result.err = "AssertionError"
                /\ result.text = ""
                /\ i = Len(result.visited)

\* A chained comparison was reached two or more calls below the root.
C7_Witness ==
    /\ Done
    /\ \E i \in DOMAIN result.visited : IsChained(result.visited[i])
    /\ Len(result.visited) >= 3
    /\ result.err = "AssertionError"

-----------------------------------------------------------------------------
(* translate: the dispatch *)

\* The node kinds the input is declared to be made of.
DeclaredKinds ==
    { "Module", "FunctionDef", "Return", "Name", "ClassDef", "Assign",
      "Attribute", "Num", "Tuple", "BoolOp", "BinOp", "Compare", "UnaryOp",
      "Lambda", "Call", "If", "IfExp", "Expr",
      "And", "Or",
      "Add", "Sub", "Mult", "Div", "Mod", "FloorDiv", "Pow",
      "LShift", "RShift", "BitOr", "BitXor", "BitAnd",
      "Invert", "Not", "UAdd", "USub",
      "Eq", "Lt", "LtE", "Gt", "GtE" }

\* A node without a rule, once reached, ends the whole call there with the
\* lookup's error and no text.
UnregisteredEndsCall ==
    Done =>
        \A i \in DOMAIN result.visited :
            result.visited[i].kind \notin Registered =>
                /\ result.err = "KeyError"
                /\ result.text = ""
                /\ i = Len(result.visited)

\* C8 as stated: reaching a node without a rule fails the whole call with
\* the lookup's error, and every declared kind, each operator kind included,
\* has a rule, so that dispatching on it does not raise that error.
C8_EveryDeclaredKindHasRule ==
    /\ UnregisteredEndsCall
    /\ (Done /\ result.err = "KeyError") => LastVisited.kind \notin DeclaredKinds

\* C8 amended: the same, but for the power operator: it has no rule, the
\* binary-operator rule handles it without dispatching on it, and
\* dispatching on it raises the lookup's error like any other kind without a
\* rule.
C8_EveryDeclaredKindButPowHasRule ==
    /\ UnregisteredEndsCall
    /\ DeclaredKinds \ { "Pow" } \subseteq Registered
    /\ "Pow" \notin Registered
    /\ (Done /\ result.err = "KeyError") =>
          LastVisited.kind \notin DeclaredKinds \ { "Pow" }
    /\ (Done /\ ReturnsText) =>
          \A i \in DOMAIN result.visited : result.visited[i].kind \in Registered

\* A node without a rule was reached two or more calls below the root.
C8_Witness ==
    /\ Done
    /\ result.err = "KeyError"
    /\ Len(result.visited) >= 3
    /\ LastVisited.kind \notin Registered

-----------------------------------------------------------------------------
(* translate_class *)

ClassCase == Done /\ root.kind = "ClassDef"

IsSimpleAssign(item) ==
    item.kind = "Assign" /\ Len(item.targets) = 1
    /\ item.targets[1].kind = "Name"

\* The name a member of a class body is entered under, <<>> if it has none.
MemberName(item) ==
    IF item.kind = "FunctionDef" THEN item.name
    ELSE IF IsSimpleAssign(item) THEN item.targets[1].id
    ELSE <<>>

\* The last member of the class body with this name and kind.
LastMember(kind, name) ==
    LET at == { i \in DOMAIN root.body :
                  root.body[i].kind = kind /\ MemberName(root.body[i]) = name }
    IN  root.body[CHOOSE i \in at : \A j \in at : j <= i]

\* The entries the prototype table is to hold: <<group, name>>, group 1 for
\* an assignment and 2 for a function.
TableEntries ==
    { <<1, MemberName(root.body[i])>> :
        i \in { j \in DOMAIN root.body : IsSimpleAssign(root.body[j]) } }
    \cup { <<2, root.body[i].name>> :
             i \in { j \in DOMAIN root.body :
                       /\ root.body[j].kind = "FunctionDef"
                       /\ root.body[j].name # init_name } }

EntryText(entry) ==
    "'" \o text_of(entry[2]) \o "': "
    \o IF entry[1] = 1
       THEN translate(LastMember("Assign", entry[2]).value).text
       ELSE translate_function(LastMember("FunctionDef", entry[2]), TRUE).text

\* Assignments before functions, and names ascending within each group.
InTableOrder(entries) ==
    \A i, j \in DOMAIN entries :
        i < j => \/ entries[i][1] < entries[j][1]
                 \/ /\ entries[i][1] = entries[j][1]
                    /\ str_lt(entries[i][2], entries[j][2])

ConstructorText ==
    IF \E i \in DOMAIN root.body : /\ root.body[i].kind = "FunctionDef"
                                   /\ root.body[i].name = init_name
    THEN translate_function(LastMember("FunctionDef", init_name), TRUE).text
    ELSE "function () {}"

ClassText(entries) ==
    "var " \o text_of(root.name) \o " = " \o ConstructorText \o ";\n"
    \o text_of(root.name) \o ".prototype = { "
    \o join(",\n", [i \in DOMAIN entries |-> EntryText(entries[i])]) \o " }"

\* The named members of the class body have pairwise different names.
DistinctNames ==
    \A i, j \in DOMAIN root.body :
        (i # j /\ MemberName(root.body[i]) # <<>>) =>
            MemberName(root.body[i]) # MemberName(root.body[j])

Permuted(p) == ClassDef(root.name, [i \in DOMAIN root.body |-> root.body[p[i]]])

\* C6: whatever the order of the members, the table lists the assignments
\* before the functions, each group ascending by name, without __init__; the
\* constructor is the empty function when there is no __init__; and a class
\* whose body is a permutation of this one's (names distinct) translates the
\* same.
C6_ClassTableOrder ==
    /\ (ClassCase /\ ReturnsText) =>
         \E entries \in [1..Cardinality(TableEntries) -> TableEntries] :
             /\ { entries[i] : i \in DOMAIN entries } = TableEntries
             /\ InTableOrder(entries)
             /\ result.text = ClassText(entries)
    /\ (ClassCase /\ DistinctNames) =>
         \A p \in Permutations(DOMAIN root.body) :
             /\ translate(Permuted(p)).err = result.err
             /\ translate(Permuted(p)).text = result.text
    /\ (ClassCase /\ root.body = <<FunctionDef(id_b, <<Name(id_self)>>,
                                               <<Return(Num(1))>>),
                                   Assign(<<Name(id_z)>>, Num(2)),
                                   Assign(<<Name(id_a)>>, Num(1))>>) =>
         result.text = "var A = function () {};\nA.prototype = { 'a': 1,\n"
                       \o "'z': 2,\n'b': function () { return 1; } }"

\* A class of the largest size was translated whose members are not in table
\* order in the source: a function comes before an assignment, and the
\* assignments are out of order.
C6_Witness ==
    /\ ClassCase
    /\ ReturnsText
    /\ DistinctNames
    /\ Len(root.body) = MaxMembers
    /\ root.body[1].kind = "FunctionDef"
    /\ \E i, j \in DOMAIN root.body :
         /\ i < j
         /\ IsSimpleAssign(root.body[i])
         /\ IsSimpleAssign(root.body[j])
         /\ str_lt(MemberName(root.body[j]), MemberName(root.body[i]))

\* C9 as stated: an assignment in a class body with more than one target, or
\* with a target that is not a simple name, makes the class fail with the
\* semantic error, and no text is returned.
C9_BadMemberIsSemanticError ==
    (ClassCase /\ \E i \in DOMAIN root.body :
                     /\ root.body[i].kind = "Assign"
                     /\ ~IsSimpleAssign(root.body[i])) =>
        result.err = "CompileError" /\ result.text = ""

-----------------------------------------------------------------------------
(* translate_function in a class *)

\* A class whose only member is a method with one formal parameter or more.
MethodCase ==
    /\ ClassCase
    /\ Len(root.body) = 1
    /\ root.body[1].kind = "FunctionDef"
    /\ Len(root.body[1].args.args) >= 1

\* How the claim has a reference to the name emitted in the method's body:
\* the first parameter as the instance keyword.
Reference(id) ==
    IF id = root.body[1].args.args[1].id THEN "this" ELSE text_of(id)

ExpectedStatement(stmt) ==
    IF stmt.kind = "Return"
    THEN IF stmt.value.kind = "Name"
         THEN "return " \o Reference(stmt.value.id) \o ";"
         ELSE "return " \o translate(stmt.value).text \o ";"
    ELSE Reference(stmt.targets[1].value.id) \o "." \o text_of(stmt.targets[1].attr)
         \o " = " \o Reference(stmt.value.id) \o ";"

ExpectedMethod ==
    LET method == root.body[1]
        args == method.args.args
    IN  "function ("
        \o join(", ", [i \in 1..Len(args) - 1 |-> text_of(args[i + 1].id)])
        \o ") { "
        \o join("\n", [i \in DOMAIN method.body |->
                          ExpectedStatement(method.body[i])])
        \o " }"

\* C1 as stated: a method or constructor with N >= 1 parameters is emitted
\* with parameters 2..N, and every reference in its body to the first
\* parameter, whatever its name, is emitted as "this".
C1_FirstParameterIsThis ==
    MethodCase =>
        /\ ReturnsText
        /\ result.text =
             IF root.body[1].name = init_name
             THEN "var A = " \o ExpectedMethod \o ";\nA.prototype = {  }"
             ELSE "var A = function () {};\nA.prototype = { '"
                  \o text_of(root.body[1].name) \o "': " \o ExpectedMethod \o " }"

=============================================================================
